---------------------------- MODULE Spec2Model ----------------------------
(***************************************************************************)
(* A model of the two scanners of genpwd-pro:                              *)
(*   src/tools/legacy_room_audit.py  (the legacy Room usage scanner)       *)
(*   src/security_agent.py           (the security audit agent)            *)
(*                                                                         *)
(* Text is modelled at the level of characters: a string is a sequence of  *)
(* one-character strings, a path is the sequence of its parts (as          *)
(* pathlib's Path.parts: an absolute path starts with the part "/"), and a *)
(* regular expression is a syntax tree matched by Ends/Search below.       *)
(***************************************************************************)
EXTENDS Integers, Sequences, FiniteSets, TLC

(***************************************************************************)
(* Characters and strings                                                  *)
(***************************************************************************)
Digits == {"0","1","2","3","4","5","6","7","8","9"}
LowerCase == {"a","b","c","d","e","f","g","h","i","j","k","l","m",
              "n","o","p","q","r","s","t","u","v","w","x","y","z"}
UpperCase == {"A","B","C","D","E","F","G","H","I","J","K","L","M",
              "N","O","P","Q","R","S","T","U","V","W","X","Y","Z"}
\* \w of Python's re on the characters the model uses
WordChars == Digits \cup LowerCase \cup UpperCase \cup {"_"}
\* \s of Python's re on the characters the model uses
SpaceChars == {" ", "\n"}
\* An undecodable byte of a file (not valid UTF-8)
BadByte == "BAD"

LowerPairs == << <<"A","a">>, <<"B","b">>, <<"C","c">>, <<"D","d">>, <<"E","e">>,
                 <<"F","f">>, <<"G","g">>, <<"H","h">>, <<"I","i">>, <<"J","j">>,
                 <<"K","k">>, <<"L","l">>, <<"M","m">>, <<"N","n">>, <<"O","o">>,
                 <<"P","p">>, <<"Q","q">>, <<"R","r">>, <<"S","s">>, <<"T","t">>,
                 <<"U","u">>, <<"V","v">>, <<"W","w">>, <<"X","x">>, <<"Y","y">>,
                 <<"Z","z">> >>
\* str.lower() of one character
LowerChar(c) ==
  IF c \in UpperCase
  THEN LowerPairs[CHOOSE i \in 1..Len(LowerPairs) : LowerPairs[i][1] = c][2]
  ELSE c
\* str.lower()
Lower(s) == [i \in 1..Len(s) |-> LowerChar(s[i])]

\* needle in hay (Python's substring test)
Contains(hay, needle) ==
  \E i \in 0..(Len(hay) - Len(needle)) : SubSeq(hay, i + 1, i + Len(needle)) = needle

\* The concatenation of a sequence of strings
RECURSIVE Concat(_)
Concat(ss) == IF ss = <<>> THEN <<>> ELSE Head(ss) \o Concat(Tail(ss))

\* sep.join(ss)
RECURSIVE Join(_, _)
Join(ss, sep) ==
  IF ss = <<>> THEN <<>>
  ELSE IF Len(ss) = 1 THEN ss[1]
  ELSE ss[1] \o sep \o Join(Tail(ss), sep)

\* s.split("\n"): the pieces between newlines, a last empty piece included
RECURSIVE SplitNL(_)
SplitNL(s) ==
  IF \A i \in 1..Len(s) : s[i] # "\n" THEN <<s>>
  ELSE LET i == CHOOSE j \in 1..Len(s) : s[j] = "\n" /\ \A k \in 1..(j-1) : s[k] # "\n"
       IN <<SubSeq(s, 1, i - 1)>> \o SplitNL(SubSeq(s, i + 1, Len(s)))

\* s.splitlines(): as split("\n") without the empty piece after a final newline
SplitLines(s) ==
  LET ps == SplitNL(s)
  IN IF ps[Len(ps)] = <<>> THEN SubSeq(ps, 1, Len(ps) - 1) ELSE ps

\* s.strip(): leading and trailing white space removed
RECURSIVE Strip(_)
Strip(s) ==
  IF s = <<>> THEN s
  ELSE IF s[1] \in SpaceChars THEN Strip(Tail(s))
  ELSE IF s[Len(s)] \in SpaceChars THEN Strip(SubSeq(s, 1, Len(s) - 1))
  ELSE s

\* bytes.decode("utf-8", errors="ignore"): the undecodable bytes are dropped
DecodeIgnore(s) == SelectSeq(s, LAMBDA c : c # BadByte)
\* Whether bytes.decode("utf-8") succeeds
DecodesStrict(s) == \A i \in 1..Len(s) : s[i] # BadByte

(***************************************************************************)
(* Regular expressions (Python's re.search, as a truth value)              *)
(***************************************************************************)
Lit(s) == [k |-> "lit", s |-> s]
LitI(s) == [k |-> "liti", s |-> s]
AnyChar == [k |-> "any"]
Cls(set) == [k |-> "cls", set |-> set]
Cat(rs) == [k |-> "cat", rs |-> rs]
Alt(rs) == [k |-> "alt", rs |-> rs]
\* r{min,max}; max = -1 for no upper limit
Rep(r, min, max) == [k |-> "rep", r |-> r, min |-> min, max |-> max]
WordBoundary == [k |-> "wb"]
Star(r) == Rep(r, 0, -1)
Plus(r) == Rep(r, 1, -1)

\* \b at offset i of s: exactly one of the characters around it is a word character
IsBoundary(s, i) ==
  LET before == i >= 1 /\ s[i] \in WordChars
      after == i < Len(s) /\ s[i + 1] \in WordChars
  IN before # after

\* The offsets at which a match of r that starts at offset i of s can end
RECURSIVE Ends(_, _, _)
RECURSIVE EndsCat(_, _, _)
RECURSIVE EndsRep(_, _, _, _, _, _)
Ends(r, s, i) ==
  CASE r.k = "lit" ->
         IF /\ i + Len(r.s) <= Len(s)
            /\ (r.s = <<>> \/ s[i + 1] = r.s[1])
            /\ SubSeq(s, i + 1, i + Len(r.s)) = r.s
         THEN {i + Len(r.s)} ELSE {}
    [] r.k = "liti" ->
         IF /\ i + Len(r.s) <= Len(s)
            /\ (r.s = <<>> \/ LowerChar(s[i + 1]) = LowerChar(r.s[1]))
            /\ Lower(SubSeq(s, i + 1, i + Len(r.s))) = Lower(r.s)
         THEN {i + Len(r.s)} ELSE {}
    [] r.k = "any" -> IF i < Len(s) /\ s[i + 1] # "\n" THEN {i + 1} ELSE {}
    [] r.k = "cls" -> IF i < Len(s) /\ s[i + 1] \in r.set THEN {i + 1} ELSE {}
    [] r.k = "wb" -> IF IsBoundary(s, i) THEN {i} ELSE {}
    [] r.k = "cat" -> EndsCat(r.rs, s, {i})
    [] r.k = "alt" -> UNION {Ends(r.rs[j], s, i) : j \in 1..Len(r.rs)}
    [] r.k = "rep" -> EndsRep(r.r, s, {i}, 0, r.min, r.max)
\* The offsets reached from the offsets `from` by matching rs one after the other
EndsCat(rs, s, from) ==
  IF rs = <<>> \/ from = {} THEN from
  ELSE EndsCat(Tail(rs), s, UNION {Ends(Head(rs), s, p) : p \in from})
\* The offsets reached from `from` (after n repetitions) by min..max repetitions in all
EndsRep(r, s, from, n, min, max) ==
  LET here == IF n >= min THEN from ELSE {}
      next == UNION {Ends(r, s, p) : p \in from} \ (IF n >= min THEN from ELSE {})
  IN IF from = {} \/ (max >= 0 /\ n >= max) \/ n > Len(s) + min THEN here
     ELSE here \cup EndsRep(r, s, next, n + 1, min, max)

\* bool(re.search(r, s))
Search(r, s) == \E i \in 0..Len(s) : Ends(r, s, i) # {}

(***************************************************************************)
(* Paths (pathlib)                                                         *)
(***************************************************************************)
\* Path.parents: every proper prefix of the parts; an absolute path's end at "/",
\* a relative path's at the empty path "."
Parents(path) == {SubSeq(path, 1, n) : n \in (IF path # <<>> /\ path[1] = <<"/">> THEN 1 ELSE 0)..(Len(path) - 1)}

\* Path.name
Name(path) == IF path = <<>> \/ path = <<<<"/">>>> THEN <<>> ELSE path[Len(path)]

\* Path.suffix: the name from its last dot on, unless that dot starts or ends the name
Suffix(path) ==
  LET name == Name(path)
      dots == {i \in 1..Len(name) : name[i] = "."}
  IN IF dots = {} THEN <<>>
     ELSE LET i == CHOOSE d \in dots : \A e \in dots : e <= d
          IN IF 1 < i /\ i < Len(name) THEN SubSeq(name, i, Len(name)) ELSE <<>>

\* str(path)
PathStr(path) ==
  IF path # <<>> /\ path[1] = <<"/">>
  THEN <<"/">> \o Join(Tail(path), <<"/">>)
  ELSE IF path = <<>> THEN <<".">> ELSE Join(path, <<"/">>)

\* Printable ASCII in code order (the backquote left out), for the order of Python's
\* string comparison
Ascii == <<" ","!","\"","#","$","%","&","'","(",")","*","+",",","-",".","/","0","1","2","3","4","5","6","7","8","9",":",";","<","=",">","?">> \o <<"@">> \o <<"A","B","C","D","E","F","G","H","I","J","K","L","M","N","O","P","Q","R","S","T","U","V","W","X","Y","Z","[","\\","]","^","_","a","b","c","d","e","f","g","h","i","j","k","l","m","n","o","p","q","r","s","t","u","v","w","x","y","z","{","|","}","~">>
Ord(c) == IF \E i \in 1..Len(Ascii) : Ascii[i] = c
          THEN CHOOSE i \in 1..Len(Ascii) : Ascii[i] = c
          ELSE Len(Ascii) + 1
\* a < b for Python strings
RECURSIVE StrLess(_, _)
StrLess(a, b) ==
  IF b = <<>> THEN FALSE
  ELSE IF a = <<>> THEN TRUE
  ELSE IF a[1] = b[1] THEN StrLess(Tail(a), Tail(b))
  ELSE Ord(a[1]) < Ord(b[1])
\* sorted(S) for a set of strings
RECURSIVE Sorted(_)
Sorted(S) ==
  IF S = {} THEN <<>>
  ELSE LET m == CHOOSE x \in S : \A y \in S \ {x} : StrLess(x, y)
       IN <<m>> \o Sorted(S \ {m})
\* str(n) for n >= 0
RECURSIVE IntStr(_)
IntStr(n) ==
  LET d == <<"0","1","2","3","4","5","6","7","8","9">>[(n % 10) + 1]
  IN IF n < 10 THEN <<d>> ELSE IntStr(n \div 10) \o <<d>>
\* The elements of a sequence
Range(f) == {f[i] : i \in DOMAIN f}

(***************************************************************************)
(* legacy_room_audit.py: configuration                                     *)
(***************************************************************************)
DEFAULT_EXTENSIONS == {<<".","k","t">>, <<".","k","t","s">>, <<".","j","a","v","a">>, <<".","x","m","l">>}
EXCLUDED_DIR_NAMES == {<<".","g","i","t">>, <<"b","u","i","l","d">>, <<"n","o","d","e","_","m","o","d","u","l","e","s">>, <<".","g","r","a","d","l","e">>, <<"a","u","d","i","t","_","r","e","s","u","l","t","s">>}
AUDIT_RESULTS_DIRNAME == <<<<"d","o","c","s">>, <<"a","u","d","i","t","_","r","e","s","u","l","t","s">>>>

VaultRepositoryKt ==
  <<<<"a","n","d","r","o","i","d">>, <<"a","p","p">>, <<"s","r","c">>, <<"m","a","i","n">>, <<"j","a","v","a">>, <<"c","o","m">>, <<"j","u","l","i","e","n">>, <<"g","e","n","p","w","d","p","r","o">>,
    <<"d","a","t","a">>, <<"r","e","p","o","s","i","t","o","r","y">>, <<"V","a","u","l","t","R","e","p","o","s","i","t","o","r","y",".","k","t">>>>

\* The table of patterns. The regular expressions are those re.compile receives:
\* in r"androidx\\.room" the two backslashes are a literal backslash, and the dot
\* after them is any character.
PATTERNS == <<
  [name |-> <<"l","e","g","a","c","y","_","v","a","u","l","t","_","r","e","p","o","s","i","t","o","r","y">>,
   description |-> <<"R","e","f","e","r","e","n","c","e","s"," ","t","o"," ","t","h","e"," ","R","o","o","m","-","b","a","c","k","e","d"," ","V","a","u","l","t","R","e","p","o","s","i","t","o","r","y">>,
   regex |-> Cat(<<WordBoundary, Lit(<<"V","a","u","l","t","R","e","p","o","s","i","t","o","r","y">>), WordBoundary>>),
   excludes |-> <<VaultRepositoryKt>>,
   tags |-> <<<<"l","e","g","a","c","y">>, <<"r","o","o","m">>>>],
  [name |-> <<"r","o","o","m","_","d","a","t","a","b","a","s","e","_","b","u","i","l","d","e","r">>,
   description |-> <<"D","i","r","e","c","t"," ","r","e","f","e","r","e","n","c","e","s"," ","t","o"," ","a","n","d","r","o","i","d","x",".","r","o","o","m"," ","A","P","I","s">>,
   regex |-> Alt(<<Cat(<<Lit(<<"a","n","d","r","o","i","d","x","\\">>), AnyChar, Lit(<<"r","o","o","m">>)>>),
                   Cat(<<Lit(<<"R","o","o","m","\\">>), AnyChar, Lit(<<"d","a","t","a","b","a","s","e","B","u","i","l","d","e","r">>)>>)>>),
   excludes |-> <<>>,
   tags |-> <<<<"r","o","o","m">>, <<"d","a","t","a","b","a","s","e">>>>],
  [name |-> <<"r","o","o","m","_","i","m","p","o","r","t","s">>,
   description |-> <<"I","m","p","o","r","t"," ","s","t","a","t","e","m","e","n","t","s"," ","f","o","r"," ","R","o","o","m"," ","c","l","a","s","s","e","s">>,
   regex |-> Alt(<<Cat(<<Lit(<<"i","m","p","o","r","t">>), Star(AnyChar), Lit(<<"a","n","d","r","o","i","d","x","\\">>), AnyChar, Lit(<<"r","o","o","m">>)>>),
                   Cat(<<Lit(<<"i","m","p","o","r","t">>), Star(AnyChar), Lit(<<"V","a","u","l","t","D","a","o">>)>>),
                   Cat(<<Lit(<<"i","m","p","o","r","t">>), Star(AnyChar), Lit(<<"V","a","u","l","t","E","n","t","i","t","y">>)>>)>>),
   excludes |-> <<>>,
   tags |-> <<<<"i","m","p","o","r","t","s">>, <<"r","o","o","m">>>>],
  [name |-> <<"r","o","o","m","_","a","n","n","o","t","a","t","i","o","n","s">>,
   description |-> <<"U","s","a","g","e"," ","o","f"," ","R","o","o","m"," ","a","n","n","o","t","a","t","i","o","n","s"," ","(","E","n","t","i","t","y",","," ","D","a","o",","," ","Q","u","e","r","y",","," ","D","a","t","a","b","a","s","e",")">>,
   regex |-> Alt(<<Lit(<<"@","D","a","t","a","b","a","s","e">>), Lit(<<"@","E","n","t","i","t","y">>), Lit(<<"@","D","a","o">>), Lit(<<"@","Q","u","e","r","y">>)>>),
   excludes |-> <<>>,
   tags |-> <<<<"r","o","o","m">>, <<"a","n","n","o","t","a","t","i","o","n","s">>>>],
  [name |-> <<"a","p","p","_","d","a","t","a","b","a","s","e","_","s","i","n","g","l","e","t","o","n","s">>,
   description |-> <<"R","e","f","e","r","e","n","c","e","s"," ","t","o"," ","A","p","p","D","a","t","a","b","a","s","e"," ","(","R","o","o","m"," ","c","o","n","c","r","e","t","e"," ","D","B",")">>,
   regex |-> Cat(<<WordBoundary, Lit(<<"A","p","p","D","a","t","a","b","a","s","e">>), WordBoundary>>),
   excludes |-> <<>>,
   tags |-> <<<<"r","o","o","m">>, <<"d","a","t","a","b","a","s","e">>>>],
  [name |-> <<"f","l","o","w","_","v","a","u","l","t","_","e","n","t","i","t","i","e","s">>,
   description |-> <<"F","l","o","w"," ","e","m","i","s","s","i","o","n","s"," ","o","f"," ","R","o","o","m"," ","e","n","t","i","t","i","e","s">>,
   regex |-> Cat(<<Lit(<<"F","l","o","w","<">>), Star(AnyChar), Lit(<<"V","a","u","l","t">>),
                   Alt(<<Lit(<<"E","n","t","i","t","y">>), Lit(<<"D","a","o">>)>>), Star(AnyChar), Lit(<<">">>)>>),
   excludes |-> <<>>,
   tags |-> <<<<"r","e","a","c","t","i","v","e">>, <<"r","o","o","m">>>>],
  [name |-> <<"c","o","r","o","u","t","i","n","e","_","d","a","o","_","c","a","l","l","s">>,
   description |-> <<"C","o","r","o","u","t","i","n","e"," ","c","a","l","l","s"," ","t","o"," ","D","A","O"," ","m","e","t","h","o","d","s">>,
   regex |-> Cat(<<Lit(<<"s","u","s","p","e","n","d">>), Plus(Cls(SpaceChars)), Lit(<<"f","u","n">>), Plus(Cls(SpaceChars)),
                   Plus(Cls(WordChars)), Star(AnyChar), Lit(<<"(">>), Star(AnyChar), Lit(<<")">>),
                   Star(AnyChar), Lit(<<":">>), Star(Cls(SpaceChars)),
                   Alt(<<Lit(<<"F","l","o","w">>), Lit(<<"L","i","s","t">>)>>), Lit(<<"<">>), Star(AnyChar), Lit(<<"V","a","u","l","t">>)>>),
   excludes |-> <<>>,
   tags |-> <<<<"c","o","r","o","u","t","i","n","e","s">>, <<"r","o","o","m">>>>] >>

PatternNames == {PATTERNS[i].name : i \in 1..Len(PATTERNS)}

\* PatternSpec.matches
matches(p, path, line) ==
  IF \E i \in 1..Len(p.excludes) : path = p.excludes[i] \/ p.excludes[i] \in Parents(path)
  THEN FALSE
  ELSE Search(p.regex, line)

(***************************************************************************)
(* The file system: a function from absolute paths to nodes                *)
(***************************************************************************)
FileNode(bytes) == [kind |-> "file", readable |-> TRUE, bytes |-> bytes]
\* A regular file the process may not open (PermissionError)
LockedNode(bytes) == [kind |-> "file", readable |-> FALSE, bytes |-> bytes]
DirNode == [kind |-> "dir", readable |-> TRUE, bytes |-> <<>>]

\* Path.exists answering yes for every path
exists_always(tree, path) == TRUE

\* Path.exists, Path.is_file, Path.is_dir
exists(tree, path) == path \in DOMAIN tree
is_file(tree, path) == path \in DOMAIN tree /\ tree[path].kind = "file"
is_dir(tree, path) == path \in DOMAIN tree /\ tree[path].kind = "dir"

IsUnder(path, root) == Len(path) > Len(root) /\ SubSeq(path, 1, Len(root)) = root
\* path.relative_to(root)
relative_to(path, root) == SubSeq(path, Len(root) + 1, Len(path))
\* root.rglob("*"): every path below root
rglob(tree, root) == {path \in DOMAIN tree : IsUnder(path, root)}

(***************************************************************************)
(* legacy_room_audit.py: core logic                                        *)
(***************************************************************************)
\* iter_source_files with its two filters (suffix, excluded names) left out
iter_source_files_unfiltered(tree, root, extensions) ==
  {path \in rglob(tree, root) : is_file(tree, path)}

\* iter_source_files: the paths it yields
iter_source_files(tree, root, extensions) ==
  {path \in rglob(tree, root) :
     /\ is_file(tree, path)
     /\ Suffix(path) \in extensions
     /\ ~ \E i \in 1..Len(path) : path[i] \in EXCLUDED_DIR_NAMES}

\* The findings of one pattern on lines idx.. of a file, in line order
RECURSIVE PatternFindings(_, _, _, _)
PatternFindings(p, path, lines, idx) ==
  IF idx > Len(lines) THEN <<>>
  ELSE (IF matches(p, path, lines[idx])
        THEN <<[line |-> idx, content |-> Strip(lines[idx])]>>
        ELSE <<>>) \o PatternFindings(p, path, lines, idx + 1)

\* The patterns with findings in a file, each with its findings
RECURSIVE ScanPatterns(_, _, _)
ScanPatterns(patterns, path, lines) ==
  IF patterns = <<>> THEN <<>>
  ELSE LET found == PatternFindings(Head(patterns), path, lines, 1)
       IN (IF found = <<>> THEN <<>> ELSE << <<Head(patterns).name, found>> >>)
          \o ScanPatterns(Tail(patterns), path, lines)

\* scan_file: raised is "" or the exception read_text raises; findings maps the
\* names of the patterns that matched to their findings
FindingsDict(hits) ==
  [n \in {hits[i][1] : i \in 1..Len(hits)} |->
     hits[CHOOSE i \in 1..Len(hits) : hits[i][1] = n][2]]
scan_file(tree, path, patterns) ==
  IF ~tree[path].readable
  THEN [raised |-> "PermissionError", findings |-> <<>>]
  ELSE LET bytes == tree[path].bytes
           text == IF DecodesStrict(bytes) THEN bytes ELSE DecodeIgnore(bytes)
       IN [raised |-> "",
           findings |-> FindingsDict(ScanPatterns(patterns, path, SplitLines(text)))]

\* AddTotals counting a pattern once per file instead of once per finding
AddTotals_per_file(totals, file_findings) ==
  [n \in DOMAIN totals |-> totals[n] + (IF n \in DOMAIN file_findings THEN 1 ELSE 0)]

\* report["totals"][pattern_name] += len(matches), for each pattern of a file
AddTotals(totals, file_findings) ==
  [n \in DOMAIN totals |->
     totals[n] + (IF n \in DOMAIN file_findings THEN Len(file_findings[n]) ELSE 0)]

\* One turn of the loop of build_report: what scan_file gave for a file (scanned) is
\* entered under the file's key, unless scan_file raised or found nothing
AddFile(acc, key, scanned) ==
  IF scanned.raised # "" THEN [acc EXCEPT !.raised = scanned.raised]
  ELSE IF DOMAIN scanned.findings = {} THEN acc
  ELSE [acc EXCEPT !.files = (key :> scanned.findings) @@ acc.files,
                   !.totals = AddTotals(acc.totals, scanned.findings)]

\* The loop of build_report over the files still to scan
RECURSIVE ScanFiles(_, _, _, _, _)
ScanFiles(tree, root, todo, patterns, acc) ==
  IF todo = {} \/ acc.raised # "" THEN acc
  ELSE LET file_path == CHOOSE path \in todo : TRUE
       IN ScanFiles(tree, root, todo \ {file_path}, patterns,
                    AddFile(acc, PathStr(relative_to(file_path, root)),
                            scan_file(tree, file_path, patterns)))

\* args.pattern: None, or the list of the names given
NoSelection == [given |-> FALSE, names |-> <<>>]
Selection(names) == [given |-> TRUE, names |-> names]

\* The patterns build_report scans for
SelectPatterns(selected_patterns) ==
  SelectSeq(PATTERNS, LAMBDA p : ~selected_patterns.given \/ p.name \in Range(selected_patterns.names))

EmptyReport == [root |-> <<>>, patterns |-> <<>>, files |-> <<>>, totals |-> <<>>]

\* build_report: raised is "" (the report is returned), "SystemExit" or the
\* exception of scan_file
\* build_report for the patterns to scan, once the loop over the files is done
ReportOf(root, patterns, done) ==
  LET names == {patterns[i].name : i \in 1..Len(patterns)}
      meta(n) == LET p == patterns[CHOOSE i \in 1..Len(patterns) : patterns[i].name = n]
                 IN [description |-> p.description, tags |-> p.tags]
  IN IF patterns = <<>> THEN [raised |-> "SystemExit", report |-> EmptyReport]
     ELSE IF done.raised # "" THEN [raised |-> done.raised, report |-> EmptyReport]
     ELSE [raised |-> "",
           report |-> [root |-> PathStr(root),
                       patterns |-> [n \in names |-> meta(n)],
                       files |-> done.files,
                       totals |-> done.totals]]

\* build_report for the patterns to scan
ScanFor(tree, root, patterns) ==
  ReportOf(root, patterns,
           ScanFiles(tree, root, iter_source_files(tree, root, DEFAULT_EXTENSIONS), patterns,
                     [raised |-> "", files |-> <<>>,
                      totals |-> [n \in {patterns[i].name : i \in 1..Len(patterns)} |-> 0]]))

build_report(tree, root, selected_patterns) ==
  ScanFor(tree, root, SelectPatterns(selected_patterns))

(***************************************************************************)
(* legacy_room_audit.py: the two renderings of a report                    *)
(***************************************************************************)
\* s.rstrip()
RECURSIVE RStrip(_)
RStrip(s) ==
  IF s # <<>> /\ s[Len(s)] \in SpaceChars THEN RStrip(SubSeq(s, 1, Len(s) - 1)) ELSE s

\* The names under which a file has findings, in the order scan_file inserted them:
\* by the line of the first finding, then by the place of the pattern in PATTERNS
PatternIndex(n) == CHOOSE i \in 1..Len(PATTERNS) : PATTERNS[i].name = n
RECURSIVE InsertionOrder(_, _)
InsertionOrder(findings, names) ==
  IF names = {} THEN <<>>
  ELSE LET first == CHOOSE n \in names : \A m \in names \ {n} :
                      \/ findings[n][1].line < findings[m][1].line
                      \/ /\ findings[n][1].line = findings[m][1].line
                         /\ PatternIndex(n) < PatternIndex(m)
       IN <<first>> \o InsertionOrder(findings, names \ {first})

\* The two characters of the source that are not ASCII
Bullet == "BULLET"
PartyPopper == "PARTY"

\* _format_human_report: the lines of the detail section of one file
HumanFileLines(file_path, findings) ==
  <<<<"-"," ">> \o file_path>>
  \o Concat([i \in 1..Cardinality(DOMAIN findings) |->
       LET pattern_name == Sorted(DOMAIN findings)[i]
           found == findings[pattern_name]
       IN <<<<" "," ">> \o <<Bullet>> \o <<" ">> \o pattern_name \o <<" ","(">> \o IntStr(Len(found)) \o <<" ","m","a","t","c","h","(","e","s",")",")">>>>
          \o [j \in 1..Len(found) |->
                <<" "," "," "," ","L">> \o IntStr(found[j].line) \o <<":"," ">> \o found[j].content]])
  \o << <<>> >>

\* _format_human_report
_format_human_report(report) ==
  LET names == Sorted(DOMAIN report.totals)
      paths == Sorted(DOMAIN report.files)
      summary == [i \in 1..Len(names) |->
                    <<"-"," ">> \o names[i] \o <<" ","(">> \o report.patterns[names[i]].description
                    \o <<")",":"," ">> \o IntStr(report.totals[names[i]])]
      top == <<<<"L","e","g","a","c","y"," ","R","o","o","m"," ","u","s","a","g","e"," ","r","e","p","o","r","t">>, <<"R","o","o","t",":"," ">> \o report.root, <<>>,
               <<"S","u","m","m","a","r","y"," ","b","y"," ","p","a","t","t","e","r","n",":">>>> \o summary \o << <<>>, <<"D","e","t","a","i","l","e","d"," ","f","i","n","d","i","n","g","s",":">> >>
      detail == Concat([i \in 1..Len(paths) |-> HumanFileLines(paths[i], report.files[paths[i]])])
  IN IF paths = <<>>
     THEN Join(top \o <<<<" "," ","N","o"," ","m","a","t","c","h","e","s"," ","f","o","u","n","d","."," ">> \o <<PartyPopper>> >>, <<"\n">>)
     ELSE RStrip(Join(top \o detail, <<"\n">>)) \o <<"\n">>

\* JSON values
JStr(s) == [t |-> "str", s |-> s]
JInt(n) == [t |-> "int", n |-> n]
\* An object: its keys and its values, in insertion order
JObj(keys, values) == [t |-> "obj", keys |-> keys, values |-> values]
JArr(items) == [t |-> "arr", items |-> items]

\* A string as json.dump writes it (ensure_ascii=False)
JsonEscape(s) ==
  Concat([i \in 1..Len(s) |->
            IF s[i] = "\"" THEN <<"\\", "\"">>
            ELSE IF s[i] = "\\" THEN <<"\\", "\\">>
            ELSE IF s[i] = "\n" THEN <<"\\", "n">>
            ELSE <<s[i]>>])
Indent(level) == [i \in 1..(2 * level) |-> " "]

\* json.dumps(v, indent=2) at a nesting level
RECURSIVE JsonDump(_, _)
JsonDump(v, level) ==
  CASE v.t = "str" -> <<"\"">> \o JsonEscape(v.s) \o <<"\"">>
    [] v.t = "int" -> IntStr(v.n)
    [] v.t = "obj" ->
         IF v.keys = <<>> THEN <<"{","}">>
         ELSE <<"{","\n">>
              \o Join([i \in 1..Len(v.keys) |->
                         Indent(level + 1) \o <<"\"">> \o JsonEscape(v.keys[i]) \o <<"\"", ":", " ">>
                         \o JsonDump(v.values[i], level + 1)], <<",","\n">>)
              \o <<"\n">> \o Indent(level) \o <<"}">>
    [] v.t = "arr" ->
         IF v.items = <<>> THEN <<"[","]">>
         ELSE <<"[","\n">>
              \o Join([i \in 1..Len(v.items) |->
                         Indent(level + 1) \o JsonDump(v.items[i], level + 1)], <<",","\n">>)
              \o <<"\n">> \o Indent(level) \o <<"]">>

\* The report as a JSON value. A dict keeps insertion order: the patterns in the
\* order of PATTERNS, the files in the order of the walk (taken here as sorted),
\* the patterns of a file in the order scan_file met them.
ReportJson(report) ==
  LET names == LET ps == SelectSeq(PATTERNS, LAMBDA p : p.name \in DOMAIN report.patterns)
               IN [i \in 1..Len(ps) |-> ps[i].name]
      paths == Sorted(DOMAIN report.files)
      finding(f) == JObj(<<<<"l","i","n","e">>, <<"c","o","n","t","e","n","t">>>>, <<JInt(f.line), JStr(f.content)>>)
      file(ff) == LET ks == InsertionOrder(ff, DOMAIN ff)
                  IN JObj(ks, [i \in 1..Len(ks) |->
                                 JArr([j \in 1..Len(ff[ks[i]]) |-> finding(ff[ks[i]][j])])])
      meta(m) == JObj(<<<<"d","e","s","c","r","i","p","t","i","o","n">>, <<"t","a","g","s">>>>,
                      <<JStr(m.description), JArr([j \in 1..Len(m.tags) |-> JStr(m.tags[j])])>>)
  IN JObj(<<<<"r","o","o","t">>, <<"p","a","t","t","e","r","n","s">>, <<"f","i","l","e","s">>, <<"t","o","t","a","l","s">>>>,
          <<JStr(report.root),
            JObj(names, [i \in 1..Len(names) |-> meta(report.patterns[names[i]])]),
            JObj(paths, [i \in 1..Len(paths) |-> file(report.files[paths[i]])]),
            JObj(names, [i \in 1..Len(names) |-> JInt(report.totals[names[i]])])>>)

\* json.dump(report, fh, indent=2, ensure_ascii=False); fh.write("\n")
JsonText(report) == JsonDump(ReportJson(report), 0) \o <<"\n">>

(***************************************************************************)
(* security_agent.py: the audit agent                                      *)
(***************************************************************************)
SecurityIssue(severity, category, file_path, line_num, message) ==
  [severity |-> severity, category |-> category, file_path |-> file_path,
   line_num |-> line_num, message |-> message]

\* open(path, 'r'): "" or the exception it raises
OpenError(tree, path) ==
  IF ~exists(tree, path) THEN "FileNotFoundError"
  ELSE IF is_dir(tree, path) THEN "IsADirectoryError"
  ELSE IF ~tree[path].readable THEN "PermissionError"
  ELSE ""

\* open(path, 'r', encoding='utf-8') and f.read(): text is the content, raised is ""
\* or the exception of open or of the decoding
ReadStrict(tree, path) ==
  LET err == OpenError(tree, path)
  IN IF err # "" THEN [raised |-> err, text |-> <<>>]
     ELSE IF ~DecodesStrict(tree[path].bytes) THEN [raised |-> "UnicodeDecodeError", text |-> <<>>]
     ELSE [raised |-> "", text |-> tree[path].bytes]

\* open(path, 'r', encoding='utf-8', errors='ignore') and f.read()
ReadIgnore(tree, path) ==
  LET err == OpenError(tree, path)
  IN IF err # "" THEN [raised |-> err, text |-> <<>>]
     ELSE [raised |-> "", text |-> DecodeIgnore(tree[path].bytes)]

\* f.readlines(): the lines of the text, each with its newline
ReadLines(text) ==
  LET ls == SplitLines(text)
  IN [i \in 1..Len(ls) |->
        IF i < Len(ls) \/ text[Len(text)] = "\n" THEN ls[i] \o <<"\n">> ELSE ls[i]]

\* The orders in which rglob may yield the paths: that of the directory entries, which
\* the file system decides
Orders(paths) ==
  {order \in [1..Cardinality(paths) -> paths] :
     \A i, j \in 1..Cardinality(paths) : order[i] = order[j] => i = j}

\* One such order (that of the paths' strings), for a loop that no exception leaves:
\* there the order decides no more than the order of the issues
WalkOrder(paths) ==
  LET strs == Sorted({PathStr(p) : p \in paths})
  IN [i \in 1..Len(strs) |-> CHOOSE p \in paths : PathStr(p) = strs[i]]

\* name matches the glob "*" \o ext
EndsWith(s, ext) == Len(s) >= Len(ext) /\ SubSeq(s, Len(s) - Len(ext) + 1, Len(s)) = ext

\* root.rglob("*.kt"), root.rglob("*.js"): files and directories alike
rglob_ext(tree, root, ext) == {path \in rglob(tree, root) : EndsWith(Name(path), ext)}

(***************************************************************************)
(* audit_android_manifest                                                  *)
(***************************************************************************)
ManifestPath == <<<<"a","n","d","r","o","i","d">>, <<"a","p","p">>, <<"s","r","c">>, <<"m","a","i","n">>, <<"A","n","d","r","o","i","d","M","a","n","i","f","e","s","t",".","x","m","l">>>>
ManifestName == <<"A","n","d","r","o","i","d","M","a","n","i","f","e","s","t",".","x","m","l">>
ExportedTrue == <<"a","n","d","r","o","i","d",":","e","x","p","o","r","t","e","d","=","\"","t","r","u","e","\"">>

safe_exported ==
  << <<"M","a","i","n","A","c","t","i","v","i","t","y">>, <<"O","A","u","t","h","C","a","l","l","b","a","c","k","A","c","t","i","v","i","t","y">>, <<"O","t","p","I","m","p","o","r","t","A","c","t","i","v","i","t","y">>,
     <<"P","a","s","s","w","o","r","d","W","i","d","g","e","t">>, <<"G","e","n","P","w","d","A","u","t","o","f","i","l","l","S","e","r","v","i","c","e">> >>

\* context with the line before the current one only
ExportedContext_one_back(lines, i) ==
  lines[i + 1] \o (IF i > 0 THEN lines[i] ELSE <<>>)

\* context = line + lines[i-1] + lines[i-2], for the line of index i (from 0)
ExportedContext(lines, i) ==
  lines[i + 1] \o (IF i > 0 THEN lines[i] ELSE <<>>) \o (IF i > 1 THEN lines[i - 1] ELSE <<>>)

\* is_safe = any(safe_name in context for safe_name in safe_exported)
is_safe(context) == \E k \in DOMAIN safe_exported : Contains(context, safe_exported[k])

ExportedIssue(i) ==
  SecurityIssue("MEDIUM", "Android Security", ManifestName, i + 1,
                "Component is exported. Ensure it is protected by permissions or Intent filters are safe.")

\* The loop over the lines without the continue of the line that closes a comment:
\* that line is evaluated as a line outside a comment
RECURSIVE ExportedLoop_close_evaluated(_, _, _)
ExportedLoop_close_evaluated(lines, i, in_comment) ==
  IF i >= Len(lines) THEN <<>>
  ELSE LET line == lines[i + 1]
           now_in == IF Contains(line, <<"-","-",">">>) THEN FALSE
                     ELSE Contains(line, <<"<","!","-","-">>) \/ in_comment
       IN IF now_in THEN ExportedLoop_close_evaluated(lines, i + 1, TRUE)
          ELSE (IF Contains(line, ExportedTrue) /\ ~is_safe(ExportedContext(lines, i))
                THEN <<ExportedIssue(i)>> ELSE <<>>)
               \o ExportedLoop_close_evaluated(lines, i + 1, FALSE)

\* The loop over the lines of the manifest from index i (from 0) on, entered with
\* the given value of in_comment: the issues it adds
RECURSIVE ExportedLoop(_, _, _)
ExportedLoop(lines, i, in_comment) ==
  IF i >= Len(lines) THEN <<>>
  ELSE LET line == lines[i + 1]
           opened == Contains(line, <<"<","!","-","-">>) \/ in_comment
       IN IF Contains(line, <<"-","-",">">>) THEN ExportedLoop(lines, i + 1, FALSE)
          ELSE IF opened THEN ExportedLoop(lines, i + 1, TRUE)
          ELSE (IF Contains(line, ExportedTrue) /\ ~is_safe(ExportedContext(lines, i))
                THEN <<ExportedIssue(i)>> ELSE <<>>)
               \o ExportedLoop(lines, i + 1, FALSE)

\* The issues audit_android_manifest adds for a manifest of the given content
ManifestIssues(content) ==
  (IF Contains(content, <<"a","n","d","r","o","i","d",":","a","l","l","o","w","B","a","c","k","u","p","=","\"","t","r","u","e","\"">>)
   THEN <<SecurityIssue("HIGH", "Android Security", ManifestName, 0,
                        "Backup is enabled (android:allowBackup='true'). Vault data could be extracted via ADB.")>>
   ELSE <<>>)
  \o (IF Contains(content, <<"a","n","d","r","o","i","d",":","d","e","b","u","g","g","a","b","l","e","=","\"","t","r","u","e","\"">>)
      THEN <<SecurityIssue("CRITICAL", "Android Security", ManifestName, 0,
                           "App is debuggable. Attackers can hook into the process easily.")>>
      ELSE <<>>)
  \o ExportedLoop(SplitNL(content), 0, FALSE)

\* audit_android_manifest: the issues it adds, and the exception that leaves it
audit_android_manifest(tree, root) ==
  LET manifest_path == root \o ManifestPath
      read == ReadStrict(tree, manifest_path)
  IN IF ~exists(tree, manifest_path) THEN [raised |-> "", issues |-> <<>>]
     ELSE IF read.raised # "" THEN [raised |-> read.raised, issues |-> <<>>]
     ELSE [raised |-> "", issues |-> ManifestIssues(read.text)]

(***************************************************************************)
(* audit_android_code, audit_electron_main, audit_js_source                *)
(***************************************************************************)
\* The issues of one Kotlin file, of its lines from index i (from 0) on
RECURSIVE KotlinLineIssues(_, _, _)
KotlinLineIssues(name, lines, i) ==
  IF i >= Len(lines) THEN <<>>
  ELSE LET line == lines[i + 1]
           logs == \/ Contains(line, <<"L","o","g",".","d","(">>) \/ Contains(line, <<"L","o","g",".","e","(">>)
                   \/ Contains(line, <<"L","o","g",".","i","(">>) \/ Contains(line, <<"L","o","g",".","w","(">>)
           wrapped == Contains(line, <<"S","a","f","e","L","o","g",".">>) \/ Contains(line, <<"S","e","c","u","r","e","L","o","g","g","e","r",".">>)
           sensitive == \/ Contains(Lower(line), <<"p","a","s","s","w","o","r","d">>)
                        \/ Contains(Lower(line), <<"t","o","k","e","n">>)
                        \/ Contains(Lower(line), <<"k","e","y">>)
       IN (IF logs /\ ~wrapped /\ sensitive
           THEN <<SecurityIssue("MEDIUM", "Data Leakage", name, i + 1,
                                "Potential logging of sensitive data (password/token).")>>
           ELSE <<>>)
          \o (IF Contains(line, <<"j","a","v","a",".","u","t","i","l",".","R","a","n","d","o","m">>)
              THEN <<SecurityIssue("LOW", "Cryptography", name, i + 1,
                                   "Usage of insecure RNG (java.util.Random). Use SecureRandom instead.")>>
              ELSE <<>>)
          \o KotlinLineIssues(name, lines, i + 1)

\* The issues of one JavaScript file, of its lines from index i (from 0) on
RECURSIVE JsLineIssues(_, _, _)
JsLineIssues(js_file, lines, i) ==
  IF i >= Len(lines) THEN <<>>
  ELSE LET line == lines[i + 1]
           str == PathStr(js_file)
       IN (IF Contains(line, <<"e","v","a","l","(">>)
           THEN <<SecurityIssue("HIGH", "Code Execution", Name(js_file), i + 1,
                                "Usage of eval() detected. High risk of XSS -> RCE.")>>
           ELSE <<>>)
          \o (IF /\ Contains(line, <<"M","a","t","h",".","r","a","n","d","o","m","(",")">>)
                 /\ ~Contains(str, <<"c","r","y","p","t","o">>)
                 /\ (Contains(str, <<"g","e","n","e","r","a","t","o","r">>) \/ Contains(str, <<"v","a","u","l","t">>))
              THEN <<SecurityIssue("MEDIUM", "Cryptography", Name(js_file), i + 1,
                                   "Math.random() used in security context. Use window.crypto.getRandomValues().")>>
              ELSE <<>>)
          \o JsLineIssues(js_file, lines, i + 1)

\* A loop over files that opens each without a try: the issues added and the files
\* counted until the loop ends or an exception leaves it
RECURSIVE ScanLoop(_, _, _, _)
ScanLoop(tree, files, kind, acc) ==
  IF files = <<>> \/ acc.raised # "" THEN acc
  ELSE LET file == Head(files)
           read == ReadIgnore(tree, file)
           lines == ReadLines(read.text)
           found == IF kind = "kt" THEN KotlinLineIssues(Name(file), lines, 0)
                    ELSE JsLineIssues(file, lines, 0)
       IN ScanLoop(tree, Tail(files), kind,
                   [raised |-> read.raised,
                    issues |-> acc.issues \o (IF read.raised = "" THEN found ELSE <<>>),
                    scanned |-> acc.scanned + 1])

NothingScanned == [raised |-> "", issues |-> <<>>, scanned |-> 0]

\* audit_android_code: the paths of its loop, and the loop over them in the order
\* they are yielded
KotlinFiles(tree, root) == rglob_ext(tree, root, <<".","k","t">>)
audit_android_code(tree, files) == ScanLoop(tree, files, "kt", NothingScanned)

\* audit_js_source: the paths its loop does not pass over, and the loop over them
JsFiles(tree, root) ==
  {js_file \in rglob_ext(tree, root, <<".","j","s">>) : ~Contains(PathStr(js_file), <<"n","o","d","e","_","m","o","d","u","l","e","s">>)}
audit_js_source(tree, files) == ScanLoop(tree, files, "js", NothingScanned)

main_files == << <<<<"e","l","e","c","t","r","o","n","-","m","a","i","n",".","c","j","s">>>>, <<<<"m","a","i","n",".","j","s">>>>, <<<<"s","r","c">>, <<"e","l","e","c","t","r","o","n","-","m","a","i","n",".","j","s">>>> >>

\* The issues audit_electron_main adds for one main file of the given content
ElectronIssues(main_file, content) ==
  (IF Contains(content, <<"n","o","d","e","I","n","t","e","g","r","a","t","i","o","n",":"," ","t","r","u","e">>)
   THEN <<SecurityIssue("CRITICAL", "Electron Security", main_file, 0,
                        "nodeIntegration is enabled. RCE risk if XSS occurs.")>>
   ELSE <<>>)
  \o (IF Contains(content, <<"c","o","n","t","e","x","t","I","s","o","l","a","t","i","o","n",":"," ","f","a","l","s","e">>)
      THEN <<SecurityIssue("HIGH", "Electron Security", main_file, 0,
                           "contextIsolation is disabled. Preload scripts can be manipulated.")>>
      ELSE <<>>)
  \o (IF Contains(content, <<"e","n","a","b","l","e","R","e","m","o","t","e","M","o","d","u","l","e",":"," ","t","r","u","e">>)
      THEN <<SecurityIssue("HIGH", "Electron Security", main_file, 0,
                           "Remote module enabled. This is deprecated and insecure.")>>
      ELSE <<>>)

\* audit_electron_main: the loop over main_files from the k-th on
RECURSIVE ElectronLoop(_, _, _, _)
ElectronLoop(tree, root, k, acc) ==
  IF k > Len(main_files) \/ acc.raised # "" THEN acc
  ELSE LET path == root \o main_files[k]
           read == ReadStrict(tree, path)
       IN IF ~exists(tree, path) THEN ElectronLoop(tree, root, k + 1, acc)
          ELSE ElectronLoop(tree, root, k + 1,
                 [raised |-> read.raised,
                  issues |-> acc.issues \o (IF read.raised = "" 
                                            THEN ElectronIssues(PathStr(main_files[k]), read.text)
                                            ELSE <<>>),
                  scanned |-> 0])

audit_electron_main(tree, root) == ElectronLoop(tree, root, 1, NothingScanned)

(***************************************************************************)
(* scan_for_secrets                                                        *)
(***************************************************************************)
\* Lengths in the two regular expressions
GoogleKeyTail == 35
GenericTokenMin == 20

\* secret_patterns, in the order of the dict
secret_patterns ==
  << [name |-> "Google API Key",
      pattern |-> Cat(<<Lit(<<"A","I","z","a">>), Rep(Cls(Digits \cup UpperCase \cup LowerCase \cup {"-", "_"}),
                                         GoogleKeyTail, GoogleKeyTail)>>)],
     [name |-> "Generic Token",
      pattern |-> Cat(<<Alt(<<LitI(<<"a","p","i","_","k","e","y">>), LitI(<<"a","c","c","e","s","s","_","t","o","k","e","n">>), LitI(<<"s","e","c","r","e","t","_","k","e","y">>)>>),
                        Star(Cls(SpaceChars)), Cls({":", "="}), Star(Cls(SpaceChars)),
                        Cls({"'", "\""}),
                        Rep(Cls(UpperCase \cup LowerCase \cup Digits \cup {"_", "-"}),
                            GenericTokenMin, -1),
                        Cls({"'", "\""})>>)] >>

secret_extensions == {<<".","j","s">>, <<".","k","t">>, <<".","x","m","l">>, <<".","j","s","o","n">>, <<".","g","r","a","d","l","e">>, <<".","p","r","o","p","e","r","t","i","e","s">>}

\* The offsets of content at which a match of the pattern starts
MatchStarts(pattern, content) == {i \in 0..Len(content) : Ends(pattern, content, i) # {}}

\* One issue for each place a pattern matches at
SecretHits_per_match(pattern, content) == Cardinality(MatchStarts(pattern, content))

\* if re.search(pattern, content): add_issue(...) -- the number of issues a pattern
\* adds for a file
SecretHits(pattern, content) == IF Search(pattern, content) THEN 1 ELSE 0

SecretIssue(file_path, name) ==
  SecurityIssue("HIGH", "Hardcoded Secret", Name(file_path), 0, "Possible " \o name \o " found.")

\* The issues the patterns from the k-th on add for a file
RECURSIVE SecretIssues(_, _, _)
SecretIssues(file_path, content, k) ==
  IF k > Len(secret_patterns) THEN <<>>
  ELSE [n \in 1..SecretHits(secret_patterns[k].pattern, content) |->
          SecretIssue(file_path, secret_patterns[k].name)]
       \o SecretIssues(file_path, content, k + 1)

\* The files scan_for_secrets opens
SecretCandidates(tree, root) ==
  {file_path \in rglob(tree, root) :
     /\ is_file(tree, file_path)
     /\ Suffix(file_path) \in secret_extensions
     /\ ~(Contains(PathStr(file_path), <<"n","o","d","e","_","m","o","d","u","l","e","s">>) \/ Contains(PathStr(file_path), <<".","g","i","t">>))}

\* The loop of scan_for_secrets; an exception of open is passed over
RECURSIVE SecretLoop(_, _)
SecretLoop(tree, files) ==
  IF files = <<>> THEN <<>>
  ELSE LET read == ReadIgnore(tree, Head(files))
       IN (IF read.raised = "" THEN SecretIssues(Head(files), read.text, 1) ELSE <<>>)
          \o SecretLoop(tree, Tail(files))

scan_for_secrets(tree, root) == SecretLoop(tree, WalkOrder(SecretCandidates(tree, root)))

\* print_report: the four counts it prints and whether it reports vulnerabilities
print_report(all_issues, scanned) ==
  LET high_sev == Cardinality({i \in DOMAIN all_issues : all_issues[i].severity \in {"HIGH", "CRITICAL"}})
      med_sev == Cardinality({i \in DOMAIN all_issues : all_issues[i].severity = "MEDIUM"})
  IN [files_scanned |-> scanned, total |-> Len(all_issues), high |-> high_sev,
      medium |-> med_sev, vulnerable |-> ~(high_sev = 0 /\ med_sev = 0)]

(***************************************************************************)
(* Bounds of the model                                                     *)
(***************************************************************************)
\* Runs of the legacy scanner in one behaviour
MaxRuns == 2
\* The clock advances at most this many times
MaxTicks == 2
\* Clock readings within one second (the resolution of the modelled clock)
TicksPerSecond == 2
\* Lines of the manifests the audit agent is run on
MaxManifestLines == 4
\* Lines of the manifests made of comment lines
MaxCommentLines == 3

(***************************************************************************)
(* legacy_room_audit.py: persistence                                       *)
(***************************************************************************)
TwoDigits(n) == IntStr((n \div 10) % 10) \o IntStr(n % 10)
\* now.strftime("%Y-%m-%d_%H-%M-%S") of a clock reading, on a day that starts at tick 0
Timestamp(ticks) ==
  LET secs == ticks \div TicksPerSecond
  IN <<"2","0","2","5","-","0","1","-","0","1","_">> \o TwoDigits((secs \div 3600) % 24) \o <<"-">>
     \o TwoDigits((secs \div 60) % 60) \o <<"-">> \o TwoDigits(secs % 60)

\* The two paths persist_report writes to
SnapshotPaths(root, ticks) ==
  LET output_dir == root \o AUDIT_RESULTS_DIRNAME
      base_name == Timestamp(ticks) \o <<"_","l","e","g","a","c","y","_","r","o","o","m","_","a","u","d","i","t">>
  IN [text |-> output_dir \o <<base_name \o <<".","t","x","t">>>>,
      json |-> output_dir \o <<base_name \o <<".","j","s","o","n">>>>]

\* _ensure_results_dir: whether mkdir(parents=True, exist_ok=True) succeeds (no
\* path from the root to the directory is a regular file)
CanEnsureResultsDir(tree, root) ==
  \A n \in 0..Len(AUDIT_RESULTS_DIRNAME) :
    ~is_file(tree, root \o SubSeq(AUDIT_RESULTS_DIRNAME, 1, n))

\* _ensure_results_dir: the tree with the directories made
_ensure_results_dir(tree, root) ==
  LET made == {root \o SubSeq(AUDIT_RESULTS_DIRNAME, 1, n) : n \in 1..Len(AUDIT_RESULTS_DIRNAME)}
  IN [path \in DOMAIN tree \cup made |-> IF path \in DOMAIN tree THEN tree[path] ELSE DirNode]

\* persist_report: the tree after the two snapshots are written
persist_report(tree, report, root, ticks) ==
  LET paths == SnapshotPaths(root, ticks)
  IN (paths.text :> FileNode(_format_human_report(report)))
     @@ (paths.json :> FileNode(JsonText(report)))
     @@ _ensure_results_dir(tree, root)

\* print_report, and the lines main prints after it
MainOutput(report, as_json, saved_paths, root) ==
  (IF as_json THEN JsonText(report) ELSE _format_human_report(report))
  \o <<"R","e","p","o","r","t"," ","s","a","v","e","d"," ","t","o",":","\n">>
  \o Concat([i \in 1..Len(saved_paths) |->
               <<"-"," ">> \o PathStr(relative_to(saved_paths[i], root)) \o <<"\n">>])

(***************************************************************************)
(* The trees the legacy scanner is run on                                  *)
(***************************************************************************)
\* A tree: the files given (relative to root) and the directories that hold them
MkTree(root, entries) ==
  LET paths == {root \o e[1] : e \in entries}
      dirs == UNION {{SubSeq(p, 1, n) : n \in Len(root)..(Len(p) - 1)} : p \in paths} \cup {root}
  IN [path \in paths \cup dirs |->
        IF path \in paths THEN (CHOOSE e \in entries : root \o e[1] = path)[2] ELSE DirNode]

SrcVaultRepository == <<"p","a","c","k","a","g","e"," ","d","a","t","a","\n","c","l","a","s","s"," ","V","a","u","l","t","R","e","p","o","s","i","t","o","r","y","(","d","a","o",":"," ","V","a","u","l","t","D","a","o",")"," ","{","\n"," "," ","@","Q","u","e","r","y"," ","f","u","n"," ","q","(",")","\n","}","\n">>
SrcUser == <<"i","m","p","o","r","t"," ","c","o","m",".","j","u","l","i","e","n",".","V","a","u","l","t","R","e","p","o","s","i","t","o","r","y","\n","v","a","l"," ","d","b",":"," ","A","p","p","D","a","t","a","b","a","s","e"," ","="," ","x","\n"," "," ","V","a","u","l","t","R","e","p","o","s","i","t","o","r","y","(",")"," "," ","\n">>
SrcDao == <<"i","m","p","o","r","t"," ","a","n","d","r","o","i","d","x",".","r","o","o","m",".","D","a","o","\n","@","D","a","o"," ","i","n","t","e","r","f","a","c","e"," ","V","a","u","l","t","D","a","o"," ","{","\n"," "," ","s","u","s","p","e","n","d"," ","f","u","n"," ","a","l","l","(",")",":"," ","F","l","o","w","<","L","i","s","t","<","V","a","u","l","t","E","n","t","i","t","y",">",">","\n","}","\n">>
SrcGen == <<"v","a","l"," ","d"," ","="," ","A","p","p","D","a","t","a","b","a","s","e",".","g","e","t","(",")","\n">>
SrcNotes == <<"V","a","u","l","t","R","e","p","o","s","i","t","o","r","y","\n">>
SrcBin == <<"v","a","l"," ","r",":"," ","V","a","u","l","t">> \o <<BadByte>> \o <<"R","e","p","o","s","i","t","o","r","y","\n">>
SrcPlain == <<"f","u","n"," ","m","a","i","n","(",")"," ","{","}","\n">>

UserKt == <<<<"a","p","p">>, <<"U","s","e","r",".","k","t">>>>
DaoKt == <<<<"a","p","p">>, <<"D","a","o",".","k","t">>>>
LockedKt == <<<<"a","p","p">>, <<"L","o","c","k","e","d",".","k","t">>>>
BinKt == <<<<"a","p","p">>, <<"B","i","n",".","k","t">>>>
PlainKt == <<<<"P","l","a","i","n",".","k","t">>>>
GenKt == <<<<"b","u","i","l","d">>, <<"G","e","n",".","k","t">>>>
NotesTxt == <<<<"n","o","t","e","s",".","t","x","t">>>>
InnerJava == <<<<"p","k","g",".","k","t">>, <<"I","n","n","e","r",".","j","a","v","a">>>>
OldXml == <<<<"d","o","c","s">>, <<"a","u","d","i","t","_","r","e","s","u","l","t","s">>, <<"O","l","d",".","x","m","l">>>>
DocsFile == <<<<"d","o","c","s">>>>

RootRepo == <<<<"/">>, <<"r","e","p","o">>>>
RootUnderBuild == <<<<"/">>, <<"b","u","i","l","d">>, <<"r","e","p","o">>>>

\* The roots and trees a behaviour starts from; the last has no root directory
LegacyWorlds ==
  { [root |-> RootRepo,
     tree |-> MkTree(RootRepo, {<<VaultRepositoryKt, FileNode(SrcVaultRepository)>>,
                                <<UserKt, FileNode(SrcUser)>>})],
    [root |-> RootRepo,
     tree |-> MkTree(RootRepo, {<<UserKt, FileNode(SrcUser)>>, <<GenKt, FileNode(SrcGen)>>,
                                <<NotesTxt, FileNode(SrcNotes)>>, <<InnerJava, FileNode(SrcGen)>>,
                                <<OldXml, FileNode(SrcGen)>>})],
    [root |-> RootRepo,
     tree |-> MkTree(RootRepo, {<<UserKt, FileNode(SrcUser)>>, <<LockedKt, LockedNode(SrcGen)>>})],
    [root |-> RootRepo,
     tree |-> MkTree(RootRepo, {<<BinKt, FileNode(SrcBin)>>, <<PlainKt, FileNode(SrcPlain)>>,
                                <<DaoKt, FileNode(SrcDao)>>})],
    [root |-> RootRepo, tree |-> MkTree(RootRepo, {})],
    [root |-> RootRepo,
     tree |-> MkTree(RootRepo, {<<UserKt, FileNode(SrcUser)>>, <<DocsFile, FileNode(SrcPlain)>>})],
    [root |-> RootUnderBuild,
     tree |-> MkTree(RootUnderBuild, {<<VaultRepositoryKt, FileNode(SrcVaultRepository)>>,
                                      <<UserKt, FileNode(SrcUser)>>})],
    [root |-> RootRepo, tree |-> <<>>] }

Bogus == <<"n","o","_","s","u","c","h","_","p","a","t","t","e","r","n">>
\* The values of --pattern a run is given
Selections ==
  { NoSelection,
    Selection(<<PATTERNS[1].name>>),
    Selection(<<PATTERNS[1].name, Bogus>>),
    Selection(<<Bogus>>) }

(***************************************************************************)
(* The legacy scanner as a state machine: runs of main, one after another  *)
(***************************************************************************)
VARIABLES
  root,     \* args.root, resolved
  fs,       \* the file system
  now,      \* the clock, in ticks
  pc,       \* where main is: "idle" (not running), "built", "persisted"
  args,     \* the arguments of the run in progress
  report,   \* main's report
  saved,    \* main's saved_paths
  stdout,   \* what the run in progress has printed
  runs,     \* the runs that ended: arguments, how they ended, what they produced
  issues,         \* GenPwdAuditor.issues
  scanned_files,  \* GenPwdAuditor.scanned_files
  summary,        \* what print_report printed
  apc             \* where run_audit is: the audit to run next, "done", "crashed", or "off"

legacy_vars == <<now, pc, args, report, saved, stdout, runs>>
audit_vars == <<issues, scanned_files, summary, apc>>
vars == <<root, fs, legacy_vars, audit_vars>>

NoArgs == [pattern |-> NoSelection, json |-> FALSE]

Init ==
  /\ \E w \in LegacyWorlds : root = w.root /\ fs = w.tree
  /\ now = 0
  /\ pc = "idle"
  /\ args = NoArgs
  /\ report = EmptyReport
  /\ saved = <<>>
  /\ stdout = <<>>
  /\ runs = <<>>
  /\ issues = <<>>
  /\ scanned_files = 0
  /\ summary = [files_scanned |-> 0, total |-> 0, high |-> 0, medium |-> 0, vulnerable |-> FALSE]
  /\ apc = "off"

\* How a run ended: what build_report raised ("" for nothing, "not called" when main
\* returned before it), whether main returned (how = "return") or an exception left it
\* (how = "SystemExit", "uncaught"); status is the exit status of the process
\* (raise SystemExit(main()): an uncaught exception, and a SystemExit that
\* carries a message, end the process with status 1)
Ended(a, raised, how, status, rep, paths, out) ==
  [pattern |-> a.pattern, raised |-> raised, how |-> how, status |-> status, report |-> rep,
   saved |-> paths, printed |-> out # <<>>]

\* Time passes. The clock is read by persist_report alone, so a tick at any other
\* moment shows as one just before the next reading.
Tick ==
  /\ pc = "built"
  /\ now < MaxTicks
  /\ now' = now + 1
  /\ UNCHANGED <<root, fs, pc, args, report, saved, stdout, runs, audit_vars>>

\* main, from its start to the end of build_report, with the arguments a; built is
\* what build_report gives for them
MainBuilt(a, built) ==
  /\ args' = a
  /\ stdout' = <<>>
  /\ saved' = <<>>
  /\ IF ~exists(fs, root)
     THEN /\ runs' = Append(runs, Ended(a, "not called", "return", 2, EmptyReport, <<>>, <<>>))
          /\ UNCHANGED <<pc, report>>
     ELSE IF built.raised = "SystemExit"
     THEN /\ runs' = Append(runs, Ended(a, built.raised, "SystemExit", 1, EmptyReport, <<>>, <<>>))
          /\ UNCHANGED <<pc, report>>
     ELSE IF built.raised # ""
     THEN /\ runs' = Append(runs, Ended(a, built.raised, "return", 1, EmptyReport, <<>>, <<>>))
          /\ UNCHANGED <<pc, report>>
     ELSE /\ report' = built.report
          /\ pc' = "built"
          /\ UNCHANGED runs

\* main, to the end of build_report
MainBuild(pattern) ==
  /\ pc = "idle"
  /\ Len(runs) < MaxRuns
  /\ LET built == build_report(fs, root, pattern)
     IN \E json \in BOOLEAN : MainBuilt([pattern |-> pattern, json |-> json], built)
  /\ UNCHANGED <<root, fs, now, audit_vars>>

\* main: persist_report
MainPersist ==
  /\ pc = "built"
  /\ IF CanEnsureResultsDir(fs, root)
     THEN /\ fs' = persist_report(fs, report, root, now)
          /\ saved' = <<SnapshotPaths(root, now).text, SnapshotPaths(root, now).json>>
          /\ pc' = "persisted"
          /\ UNCHANGED runs
     ELSE /\ runs' = Append(runs, Ended(args, "", "uncaught", 1, report, <<>>, stdout))
          /\ pc' = "idle"
          /\ UNCHANGED <<fs, saved>>
  /\ UNCHANGED <<root, now, args, report, stdout, audit_vars>>

\* main: print_report, the list of the saved paths, return 0
MainPrint ==
  /\ pc = "persisted"
  /\ stdout' = MainOutput(report, args.json, saved, root)
  /\ runs' = Append(runs, Ended(args, "", "return", 0, report, saved, stdout'))
  /\ pc' = "idle"
  /\ UNCHANGED <<root, fs, now, args, report, saved, audit_vars>>

Next ==
  \/ Tick
  \/ \E pattern \in Selections : MainBuild(pattern)
  \/ MainPersist
  \/ MainPrint

Spec == Init /\ [][Next]_vars

(***************************************************************************)
(* The trees the audit agent is run on (root_path is ".", the empty path)  *)
(***************************************************************************)
AuditRoot == <<>>

LineExported == <<"<","a","c","t","i","v","i","t","y"," ","a","n","d","r","o","i","d",":","e","x","p","o","r","t","e","d","=","\"","t","r","u","e","\"",">">>
LineMain == <<"<","a","c","t","i","v","i","t","y"," ","a","n","d","r","o","i","d",":","n","a","m","e","=","\"",".","M","a","i","n","A","c","t","i","v","i","t","y","\"">>
LineOpen == <<"<","!","-","-"," ","l","e","g","a","c","y">>
LineClose == <<"-","-",">">>
\* A line that holds the end of a name before the exported attribute and the start of
\* a name after it
LineSplit == <<"W","i","d","g","e","t","\""," ","a","n","d","r","o","i","d",":","e","x","p","o","r","t","e","d","=","\"","t","r","u","e","\""," ","a","n","d","r","o","i","d",":","n","a","m","e","=","\"",".","P","a","s","s","w","o","r","d">>
ManifestLineChoices == {LineExported, LineMain, LineOpen, LineClose, LineSplit}

\* Lines that hold the exported attribute and a comment token, and a comment of one line
LineOpenExported == <<"<","!","-","-"," ","<","a","c","t","i","v","i","t","y"," ","a","n","d","r","o","i","d",":","e","x","p","o","r","t","e","d","=","\"","t","r","u","e","\"",">">>
LineCloseExported == <<"<","s","e","r","v","i","c","e"," ","a","n","d","r","o","i","d",":","e","x","p","o","r","t","e","d","=","\"","t","r","u","e","\"","/",">"," ","-","-",">">>
LineComment == <<"<","!","-","-"," ","w","i","d","g","e","t","s"," ","-","-",">">>
CommentLineChoices == {LineExported, LineOpenExported, LineCloseExported, LineComment}

\* A tree that holds a manifest of the given lines and nothing else
ManifestTree(lines) == MkTree(AuditRoot, {<<ManifestPath, FileNode(Join(lines, <<"\n">>))>>})

GoogleKey == <<"A","I","z","a","S","y","A","-","1","2","3","4","5","6","7","8","9","0","_","a","b","c","d","e","f","g","h","i","j","k","l","m","n","o","p","q","r","s","t">>
Token == <<"A","b","c","d","e","f","g","h","i","j","_","0","1","2","3","4","5","6","7","8">>

SrcManifestFlags ==
  <<"<","a","p","p","l","i","c","a","t","i","o","n"," ","a","n","d","r","o","i","d",":","a","l","l","o","w","B","a","c","k","u","p","=","\"","t","r","u","e","\""," ","a","n","d","r","o","i","d",":","d","e","b","u","g","g","a","b","l","e","=","\"","t","r","u","e","\"",">","\n">>
  \o LineExported \o <<"\n","<","/","a","p","p","l","i","c","a","t","i","o","n",">","\n">>
SrcKotlin ==
  <<"i","m","p","o","r","t"," ","j","a","v","a",".","u","t","i","l",".","R","a","n","d","o","m","\n","L","o","g",".","d","(","T","A","G",","," ","\"","T","o","k","e","n"," ","\""," ","+"," ","t",")","\n","S","a","f","e","L","o","g",".","d","(","T","A","G",","," ","\"","k","e","y","\"",")","\n","L","o","g",".","w","(","T","A","G",","," ","\"","s","t","a","r","t","e","d","\"",")","\n">>
SrcMain == <<"n","e","w"," ","B","r","o","w","s","e","r","W","i","n","d","o","w","(","{"," ","n","o","d","e","I","n","t","e","g","r","a","t","i","o","n",":"," ","t","r","u","e",","," ","c","o","n","t","e","x","t","I","s","o","l","a","t","i","o","n",":"," ","f","a","l","s","e"," ","}",")","\n">>
SrcJs == <<"c","o","n","s","t"," ","n"," ","="," ","M","a","t","h",".","r","a","n","d","o","m","(",")","\n","r","e","t","u","r","n"," ","e","v","a","l","(","s","r","c",")">>
SrcKeyOnce == <<"{","\"","m","a","p","s","\"",":"," ","\"">> \o GoogleKey \o <<"\"","}","\n">>
SrcKeyTwice == GoogleKey \o <<"\n">> \o GoogleKey \o <<"\n">>
SrcKeyAssigned == <<"A","P","I","_","K","E","Y"," ","="," ","\"">> \o GoogleKey \o <<"\"","\n">>
SrcTokenAssigned == <<"a","c","c","e","s","s","_","t","o","k","e","n",":","\n"," "," ","'">> \o Token \o <<"'","\n">>
SrcKeyShort == SubSeq(GoogleKey, 1, Len(GoogleKey) - 1) \o <<" ","="," ","\"","s","h","o","r","t","\"">>
SrcKeyBroken == SubSeq(GoogleKey, 1, 10) \o <<BadByte>> \o SubSeq(GoogleKey, 11, Len(GoogleKey))

\* The trees with more than a manifest
AuditTrees ==
  { \* a tree of every kind of file, all readable
    MkTree(AuditRoot,
           { <<ManifestPath, FileNode(SrcManifestFlags)>>,
             <<<<<<"a","n","d","r","o","i","d">>, <<"a","p","p">>, <<"S","y","n","c",".","k","t">>>>, FileNode(SrcKotlin)>>,
             <<<<<<"m","a","i","n",".","j","s">>>>, FileNode(SrcMain)>>,
             <<<<<<"s","r","c">>, <<"v","a","u","l","t">>, <<"g","e","n","e","r","a","t","o","r",".","j","s">>>>, FileNode(SrcJs)>>,
             <<<<<<"s","r","c">>, <<"c","r","y","p","t","o">>, <<"v","a","u","l","t",".","j","s">>>>, FileNode(SrcJs)>>,
             <<<<<<"n","o","d","e","_","m","o","d","u","l","e","s">>, <<"p","k","g">>, <<"i","n","d","e","x",".","j","s">>>>, FileNode(SrcJs \o <<"\n">> \o GoogleKey)>>,
             <<<<<<"c","o","n","f","i","g",".","j","s","o","n">>>>, FileNode(SrcKeyOnce)>>,
             <<<<<<"k","e","y","s",".","p","r","o","p","e","r","t","i","e","s">>>>, FileNode(SrcKeyAssigned)>>,
             <<<<<<"n","o","t","e","s",".","t","x","t">>>>, FileNode(SrcKeyOnce)>> }),
    \* keys and tokens in several shapes
    MkTree(AuditRoot,
           { <<<<<<"a">>, <<"t","w","i","c","e",".","x","m","l">>>>, FileNode(SrcKeyTwice)>>,
             <<<<<<"a">>, <<"a","s","s","i","g","n","e","d",".","p","r","o","p","e","r","t","i","e","s">>>>, FileNode(SrcKeyAssigned)>>,
             <<<<<<"a">>, <<"t","o","k","e","n",".","g","r","a","d","l","e">>>>, FileNode(SrcTokenAssigned)>>,
             <<<<<<"a">>, <<"s","h","o","r","t",".","j","s","o","n">>>>, FileNode(SrcKeyShort)>>,
             <<<<<<"a">>, <<"b","r","o","k","e","n",".","j","s","o","n">>>>, FileNode(SrcKeyBroken)>>,
             <<<<<<".","g","i","t","h","u","b">>, <<"c","i",".","j","s","o","n">>>>, FileNode(SrcKeyOnce)>>,
             <<<<<<"b">>, <<"l","o","c","k","e","d",".","j","s","o","n">>>>, LockedNode(SrcKeyOnce)>> }),
    \* the same name in two directories
    MkTree(AuditRoot,
           { <<<<<<"a">>, <<"c","o","n","f","i","g",".","j","s","o","n">>>>, FileNode(SrcKeyAssigned)>>,
             <<<<<<"b">>, <<"c","o","n","f","i","g",".","j","s","o","n">>>>, FileNode(SrcKeyTwice)>> }),
    \* a Kotlin file the process may not open
    MkTree(AuditRoot,
           { <<<<<<"a","p","p">>, <<"A",".","k","t">>>>, FileNode(SrcKotlin)>>,
             <<<<<<"a","p","p">>, <<"L","o","c","k","e","d",".","k","t">>>>, LockedNode(SrcKotlin)>>,
             <<<<<<"c","o","n","f","i","g",".","j","s","o","n">>>>, FileNode(SrcKeyOnce)>> }),
    \* a directory whose name matches *.js
    MkTree(AuditRoot,
           { <<<<<<"c","h","a","r","t",".","j","s">>, <<"R","E","A","D","M","E",".","j","s","o","n">>>>, FileNode(SrcKeyOnce)>>,
             <<<<<<"s","r","c">>, <<"e","l","e","c","t","r","o","n","-","m","a","i","n",".","j","s">>>>, FileNode(SrcMain)>> }),
    \* a manifest and a main file that are not UTF-8
    MkTree(AuditRoot, { <<ManifestPath, FileNode(<<BadByte>> \o SrcManifestFlags)>> }),
    MkTree(AuditRoot, { <<<<<<"e","l","e","c","t","r","o","n","-","m","a","i","n",".","c","j","s">>>>, FileNode(<<BadByte>> \o SrcMain)>> }),
    \* an empty tree
    MkTree(AuditRoot, {}) }

(***************************************************************************)
(* The audit agent as a state machine: run_audit, one audit after another  *)
(***************************************************************************)
NoSummary == [files_scanned |-> 0, total |-> 0, high |-> 0, medium |-> 0, vulnerable |-> FALSE]

AuditInit ==
  /\ root = AuditRoot
  /\ fs \in {ManifestTree(lines) : lines \in [1..MaxManifestLines -> ManifestLineChoices]}
            \cup {ManifestTree(lines) : lines \in [1..MaxCommentLines -> CommentLineChoices]}
            \cup AuditTrees
  /\ issues = <<>>
  /\ scanned_files = 0
  /\ summary = NoSummary
  /\ apc = "manifest"
  /\ now = 0
  /\ pc = "idle"
  /\ args = NoArgs
  /\ report = EmptyReport
  /\ saved = <<>>
  /\ stdout = <<>>
  /\ runs = <<>>

\* One audit of run_audit: its issues are added, and the next audit is due unless an
\* exception left it (the exception then ends run_audit and the program)
AuditStep(here, result, next) ==
  /\ apc = here
  /\ issues' = issues \o result.issues
  /\ scanned_files' = scanned_files + result.scanned
  /\ apc' = IF result.raised # "" THEN "crashed" ELSE next
  /\ UNCHANGED <<root, fs, summary, legacy_vars>>

AuditAndroidManifest ==
  LET r == audit_android_manifest(fs, root)
  IN AuditStep("manifest", [raised |-> r.raised, issues |-> r.issues, scanned |-> 0], "code")

AuditAndroidCode ==
  \E files \in Orders(KotlinFiles(fs, root)) :
    AuditStep("code", audit_android_code(fs, files), "electron")

AuditElectronMain == AuditStep("electron", audit_electron_main(fs, root), "js")

AuditJsSource ==
  \E files \in Orders(JsFiles(fs, root)) :
    AuditStep("js", audit_js_source(fs, files), "secrets")

ScanForSecrets ==
  AuditStep("secrets", [raised |-> "", issues |-> scan_for_secrets(fs, root), scanned |-> 0], "report")

PrintReport ==
  /\ apc = "report"
  /\ summary' = print_report(issues, scanned_files)
  /\ apc' = "done"
  /\ UNCHANGED <<root, fs, issues, scanned_files, legacy_vars>>

AuditNext ==
  \/ AuditAndroidManifest
  \/ AuditAndroidCode
  \/ AuditElectronMain
  \/ AuditJsSource
  \/ ScanForSecrets
  \/ PrintReport

AuditSpec == AuditInit /\ [][AuditNext]_vars

(***************************************************************************)
(* Properties of the legacy scanner                                        *)
(***************************************************************************)
Successful == {i \in DOMAIN runs : runs[i].status = 0}
\* The snapshot files the runs so far have written
SnapshotsWritten == UNION {Range(runs[i].saved) : i \in DOMAIN runs}
\* The files in the output directory that bear a snapshot's name
SnapshotFiles ==
  {path \in DOMAIN fs :
     /\ is_file(fs, path)
     /\ SubSeq(path, 1, Len(path) - 1) = root \o AUDIT_RESULTS_DIRNAME
     /\ \/ Contains(Name(path), <<"_","l","e","g","a","c","y","_","r","o","o","m","_","a","u","d","i","t",".","t","x","t">>)
        \/ Contains(Name(path), <<"_","l","e","g","a","c","y","_","r","o","o","m","_","a","u","d","i","t",".","j","s","o","n">>)}
HasUnknownName(selection) ==
  selection.given /\ \E i \in 1..Len(selection.names) : selection.names[i] \notin PatternNames
LegacyName == PATTERNS[1].name

\* C1 (as claimed): a run whose --pattern selection holds a name that is not in
\* PATTERNS ends with a non-zero exit status and writes no report file, whether
\* or not the selection also holds valid names.
C1_UnknownNameAborts ==
  \A i \in DOMAIN runs :
    HasUnknownName(runs[i].pattern) => runs[i].status # 0 /\ runs[i].saved = <<>>

\* C2 (as claimed): in the report of a run on a root that holds
\* android/.../VaultRepository.kt, that file has no finding under
\* legacy_vault_repository.
C2_ExclusionRespected ==
  \A i \in Successful :
    LET files == runs[i].report.files
        key == PathStr(VaultRepositoryKt)
    IN key \in DOMAIN files => LegacyName \notin DOMAIN files[key]

\* The files C3 says the walker yields: the regular files below the root with an
\* allowed suffix and no excluded name among their directories below the root
C3_Expected ==
  {path \in rglob(fs, root) :
     /\ is_file(fs, path)
     /\ Suffix(path) \in DEFAULT_EXTENSIONS
     /\ LET rel == relative_to(path, root)
        IN ~ \E i \in 1..(Len(rel) - 1) : rel[i] \in EXCLUDED_DIR_NAMES}

\* C3 (as claimed): the walker of a run yields exactly the files of C3_Expected,
\* whatever the names of the directories that hold the root.
C3_WalkDependsOnlyOnPathBelowRoot ==
  pc = "built" => iter_source_files(fs, root, DEFAULT_EXTENSIONS) = C3_Expected

\* C4 (as claimed): after n successful runs there are 2n distinct snapshot files,
\* each holding what its own run wrote, whatever the timing of the runs.
C4_SnapshotsNeverOverwritten ==
  pc = "idle" =>
    /\ Cardinality(SnapshotsWritten) = 2 * Cardinality(Successful)
    /\ \A i \in Successful :
         /\ fs[runs[i].saved[1]].bytes = _format_human_report(runs[i].report)
         /\ fs[runs[i].saved[2]].bytes = JsonText(runs[i].report)

\* C5 (as claimed, for the legacy scanner): a file of the walk that cannot be read
\* does not abort the run: a run on an existing root with a pattern selected, and
\* an output directory that can be made, completes with its report.
C5_UnreadableFileDoesNotAbort ==
  \A i \in DOMAIN runs :
    (exists(fs, root) /\ SelectPatterns(runs[i].pattern) # <<>> /\ runs[i].how # "uncaught")
      => runs[i].status = 0 /\ runs[i].printed

\* C8: main ends with status 2, having scanned and written nothing, exactly when
\* the root does not exist; with status 1, having written no report file, when
\* build_report raises (main returns 1 for an exception it catches; the SystemExit
\* of an empty selection passes through main and ends the process with status 1);
\* and with status 0 only after build_report returned and both snapshots were
\* written, the report being printed after they are written.
C8_ExitCodes ==
  /\ \A i \in DOMAIN runs :
       LET r == runs[i] IN
       /\ (root \notin DOMAIN fs) <=> (r.status = 2)
       /\ r.status = 2 => r.how = "return" /\ r.raised = "not called" /\ r.saved = <<>>
       /\ r.raised \notin {"", "not called"} =>
            /\ r.status = 1 /\ r.saved = <<>> /\ ~r.printed
            /\ r.how = (IF r.raised = "SystemExit" THEN "SystemExit" ELSE "return")
       /\ r.status = 0 =>
            /\ r.how = "return" /\ r.raised = "" /\ r.printed
            /\ Len(r.saved) = 2 /\ \A j \in 1..2 : is_file(fs, r.saved[j])
  /\ SnapshotFiles = (IF pc = "persisted" THEN Range(saved) ELSE {})
                       \cup UNION {Range(runs[i].saved) : i \in Successful}
  /\ stdout # <<>> => Len(saved) = 2 /\ \A j \in 1..2 : is_file(fs, saved[j])

\* A run that ended with status 0 and one that build_report ended by SystemExit
C8_Witness ==
  /\ \E i \in DOMAIN runs : runs[i].status = 0 /\ runs[i].printed
  /\ \E i \in DOMAIN runs : runs[i].raised = "SystemExit" /\ runs[i].status = 1

\* The reports build_report has returned so far, each with its selection: those of
\* the runs that ended and that of the run in progress
ReportsBuilt ==
  {[pattern |-> runs[i].pattern, report |-> runs[i].report] :
     i \in {k \in DOMAIN runs : runs[k].raised = ""}}
  \cup (IF pc = "idle" THEN {} ELSE {[pattern |-> args.pattern, report |-> report]})

\* C9: two runs with the same selection, on a tree that changes only by the
\* snapshots the runs write, give reports with the same patterns, files and totals.
C9_RunsGiveTheSameReport ==
  \A a, b \in ReportsBuilt :
    a.pattern = b.pattern =>
      /\ a.report.patterns = b.report.patterns
      /\ a.report.files = b.report.files
      /\ a.report.totals = b.report.totals

\* Two successful runs with the same selection, the second on a tree that holds
\* the snapshots of the first, with findings in the report
C9_Witness ==
  \E i, j \in Successful :
    /\ i < j
    /\ runs[i].pattern = runs[j].pattern
    /\ DOMAIN runs[j].report.files # {}
    /\ \A k \in 1..2 : is_file(fs, runs[i].saved[k])

\* The sum over the files of a report of the findings listed under a pattern
RECURSIVE ListedFindings(_, _, _)
ListedFindings(files, keys, name) ==
  IF keys = {} THEN 0
  ELSE LET key == CHOOSE k \in keys : TRUE
       IN (IF name \in DOMAIN files[key] THEN Len(files[key][name]) ELSE 0)
          + ListedFindings(files, keys \ {key}, name)

\* The lines of a file of the walk, as scan_file reads them
LinesOf(path) == SplitLines(DecodeIgnore(fs[path].bytes))
\* The (file, line) pairs of the walk that a pattern matches
MatchingPairs(p) ==
  {pair \in UNION {{<<path, idx>> : idx \in 1..Len(LinesOf(path))} :
                     path \in iter_source_files(fs, root, DEFAULT_EXTENSIONS)} :
     matches(p, pair[1], LinesOf(pair[1])[pair[2]])}

\* C10: in the report build_report returns, totals has exactly the names of the
\* selected patterns as keys; the total of a pattern is the number of findings
\* listed under it over all files, which is the number of (file, line) pairs of
\* the walk the pattern matches; no finding is listed under another name.
C10_TotalsAgree ==
  pc = "built" =>
    LET selected == SelectPatterns(args.pattern)
    IN /\ DOMAIN report.totals = {selected[i].name : i \in 1..Len(selected)}
       /\ \A i \in 1..Len(selected) :
            /\ report.totals[selected[i].name]
                 = ListedFindings(report.files, DOMAIN report.files, selected[i].name)
            /\ report.totals[selected[i].name] = Cardinality(MatchingPairs(selected[i]))
       /\ \A key \in DOMAIN report.files : DOMAIN report.files[key] \subseteq DOMAIN report.totals

\* A report with a pattern that has several findings in one file, and a selection
\* that leaves patterns out
C10_Witness ==
  /\ pc = "built"
  /\ args.pattern.given
  /\ \E key \in DOMAIN report.files : \E n \in DOMAIN report.files[key] :
       Len(report.files[key][n]) > 1

\* The text b begins in the line somewhere after an occurrence of the text a
FollowedBy(line, a, b) ==
  \E i \in 0..(Len(line) - Len(a)) :
    /\ SubSeq(line, i + 1, i + Len(a)) = a
    /\ Contains(SubSeq(line, i + Len(a) + 1, Len(line)), b)
\* The report lists a finding at a line of a file under a pattern's name
FindingListed(path, idx, name) ==
  LET key == PathStr(relative_to(path, root))
  IN /\ key \in DOMAIN report.files
     /\ name \in DOMAIN report.files[key]
     /\ \E k \in 1..Len(report.files[key][name]) : report.files[key][name][k].line = idx
\* The names of the patterns of the run
SelectedNames ==
  LET selected == SelectPatterns(args.pattern)
  IN {selected[i].name : i \in 1..Len(selected)}

\* C12 (as claimed): in the report build_report returns, every line of a file of
\* the walk that holds 'androidx.room' or 'Room.databaseBuilder' has a finding
\* under room_database_builder, and every line that holds 'import' and, later on
\* the line, 'androidx.room' has a finding under room_imports, when the pattern
\* is among those selected.
C12_FrameworkApiLinesFound ==
  pc = "built" =>
    \A path \in iter_source_files(fs, root, DEFAULT_EXTENSIONS) :
      \A idx \in 1..Len(LinesOf(path)) :
        LET line == LinesOf(path)[idx]
        IN /\ ( /\ PATTERNS[2].name \in SelectedNames
                /\ Contains(line, <<"a","n","d","r","o","i","d","x",".","r","o","o","m">>) \/ Contains(line, <<"R","o","o","m",".","d","a","t","a","b","a","s","e","B","u","i","l","d","e","r">>) )
                => FindingListed(path, idx, PATTERNS[2].name)
           /\ ( /\ PATTERNS[3].name \in SelectedNames
                /\ FollowedBy(line, <<"i","m","p","o","r","t">>, <<"a","n","d","r","o","i","d","x",".","r","o","o","m">>) )
                => FindingListed(path, idx, PATTERNS[3].name)

(***************************************************************************)
(* Properties of the audit agent                                           *)
(***************************************************************************)
\* scan_for_secrets has run
SecretsScanned == apc \in {"report", "done"}
\* The files scan_for_secrets opened and read, and what it read
SecretsRead == {f \in SecretCandidates(fs, root) : fs[f].readable}
SecretContent(f) == DecodeIgnore(fs[f].bytes)
GoogleKeyShape == secret_patterns[1].pattern
GenericTokenShape == secret_patterns[2].pattern
\* The issues of the secrets scan that bear a file's name
SecretFindings(f) ==
  {k \in DOMAIN issues : issues[k].category = "Hardcoded Secret" /\ issues[k].file_path = Name(f)}
\* The files read that bear the name of f and match a shape
Matching(f, shape) == {g \in SecretsRead : Name(g) = Name(f) /\ Search(shape, SecretContent(g))}

\* C6, as stated: once scan_for_secrets has run, a file it read whose content matches
\* the vendor API-key shape has exactly one HIGH finding of the secrets scan, at line 0
\* (one for each file of that name that matches), whatever else its content holds.
C6_OneHighFindingPerFile ==
  SecretsScanned =>
    \A f \in SecretsRead :
      Search(GoogleKeyShape, SecretContent(f)) =>
        /\ Cardinality({k \in SecretFindings(f) : issues[k].severity = "HIGH"})
             = Cardinality(Matching(f, GoogleKeyShape))
        /\ \A k \in SecretFindings(f) : issues[k].line_num = 0

\* C6, amended: once scan_for_secrets has run, every file it read has exactly one
\* finding "Possible Google API Key found." if its content matches the vendor API-key
\* shape (however often) and none if not, and likewise exactly one finding "Possible
\* Generic Token found." if it matches the assignment shape and none if not; the
\* findings of the secrets scan are all HIGH and at line 0. (Files of one name
\* share their findings: the counts are per name.)
C6_OneFindingPerPatternPerFile ==
  SecretsScanned =>
    /\ \A f \in SecretsRead :
         /\ Cardinality({k \in SecretFindings(f) : issues[k].message = "Possible Google API Key found."})
              = Cardinality(Matching(f, GoogleKeyShape))
         /\ Cardinality({k \in SecretFindings(f) : issues[k].message = "Possible Generic Token found."})
              = Cardinality(Matching(f, GenericTokenShape))
         /\ Cardinality(SecretFindings(f))
              = Cardinality(Matching(f, GoogleKeyShape)) + Cardinality(Matching(f, GenericTokenShape))
    /\ \A k \in DOMAIN issues :
         issues[k].category = "Hardcoded Secret" =>
           /\ issues[k].severity = "HIGH"
           /\ issues[k].line_num = 0
           /\ \E f \in SecretsRead : issues[k].file_path = Name(f)

\* The secrets scan has run on a tree with a file that holds the key twice and has one
\* finding, and a file that holds the key as the value of an assignment and has two
C6_Witness ==
  /\ SecretsScanned
  /\ \E f, g \in SecretsRead :
       /\ Cardinality(Matching(f, GoogleKeyShape)) = 1
       /\ Cardinality(MatchStarts(GoogleKeyShape, SecretContent(f))) >= 2
       /\ Cardinality(SecretFindings(f)) = 1
       /\ Cardinality(Matching(g, GoogleKeyShape)) = 1
       /\ Cardinality(Matching(g, GenericTokenShape)) = 1
       /\ Cardinality(SecretFindings(g)) = 2

\* audit_android_manifest has read the manifest and run its loop over the lines
ManifestAudited ==
  /\ apc \notin {"off", "manifest"}
  /\ ReadStrict(fs, root \o ManifestPath).raised = ""
\* content.split('\n') of the manifest
ManifestLines == SplitNL(fs[root \o ManifestPath].bytes)
\* The line of index i (from 0) holds the exported attribute
IsExportedLine(lines, i) == Contains(lines[i + 1], <<"a","n","d","r","o","i","d",":","e","x","p","o","r","t","e","d","=","\"","t","r","u","e","\"">>)
\* The line of index i is evaluated: it holds no comment-close token, and no line
\* from the one after the last line with a comment-close token to it holds a
\* comment-open token
IsEvaluated(lines, i) ==
  LET closes == {j \in 0..(i - 1) : Contains(lines[j + 1], <<"-","-",">">>)}
      since == IF closes = {} THEN 0 ELSE (CHOOSE j \in closes : \A c \in closes : c <= j) + 1
  IN /\ ~Contains(lines[i + 1], <<"-","-",">">>)
     /\ \A j \in since..i : ~Contains(lines[j + 1], <<"<","!","-","-">>)
\* The line of index i - back, if there is one
LineBack(lines, i, back) == IF i >= back THEN lines[i + 1 - back] ELSE <<>>
AllowListed ==
  {<<"M","a","i","n","A","c","t","i","v","i","t","y">>, <<"O","A","u","t","h","C","a","l","l","b","a","c","k","A","c","t","i","v","i","t","y">>, <<"O","t","p","I","m","p","o","r","t","A","c","t","i","v","i","t","y">>, <<"P","a","s","s","w","o","r","d","W","i","d","g","e","t">>,
   <<"G","e","n","P","w","d","A","u","t","o","f","i","l","l","S","e","r","v","i","c","e">>}
\* The concatenation of line i and the lines before it, to the line i - back, holds
\* an allow-listed name
NameInLookback(lines, i, back) ==
  LET context == Concat([b \in 1..(back + 1) |-> LineBack(lines, i, b - 1)])
  IN \E name \in AllowListed : Contains(context, name)
\* The MEDIUM 'Android Security' findings with the line number of line i
ExportedFindings(i) ==
  {k \in DOMAIN issues : /\ issues[k].severity = "MEDIUM"
                         /\ issues[k].category = "Android Security"
                         /\ issues[k].line_num = i + 1}

\* C7: once the manifest is audited, for every line i that holds
\* android:exported="true" and is evaluated, there is no finding for line i if the
\* concatenation of lines i, i-1, i-2 holds an allow-listed name and exactly one
\* MEDIUM 'Android Security' finding with line number i+1 otherwise; so the lines
\* further back than two have no part in the decision.
C7_ExportedLineLookback ==
  ManifestAudited =>
    LET lines == ManifestLines
    IN \A i \in 0..(Len(lines) - 1) :
         (IsExportedLine(lines, i) /\ IsEvaluated(lines, i)) =>
           Cardinality(ExportedFindings(i)) = (IF NameInLookback(lines, i, 2) THEN 0 ELSE 1)

\* A manifest is audited in which one exported line has its finding, and another has
\* none for a name that only the line two back holds, while the line three back is
\* an exported line without a name
C7_Witness ==
  /\ ManifestAudited
  /\ LET lines == ManifestLines
     IN \E i \in 0..(Len(lines) - 4) :
          /\ IsExportedLine(lines, i) /\ IsEvaluated(lines, i) /\ ~NameInLookback(lines, i, 2)
          /\ Cardinality(ExportedFindings(i)) = 1
          /\ IsExportedLine(lines, i + 3) /\ IsEvaluated(lines, i + 3)
          /\ NameInLookback(lines, i + 3, 2) /\ ~NameInLookback(lines, i + 3, 1)
          /\ ExportedFindings(i + 3) = {}

\* The comment tracking as a machine of two states, stepped once for each line
CommentStep(state, line) ==
  IF Contains(line, <<"-","-",">">>) THEN "NORMAL"
  ELSE IF Contains(line, <<"<","!","-","-">>) THEN "IN_COMMENT"
  ELSE state
\* The state after the lines of index 0..i are stepped, from NORMAL
RECURSIVE CommentStateAfter(_, _)
CommentStateAfter(lines, i) ==
  IF i < 0 THEN "NORMAL" ELSE CommentStep(CommentStateAfter(lines, i - 1), lines[i + 1])
\* The index of the first line from index j on that holds a comment-close token, or
\* that of the last line if there is none
NextClose(lines, j) ==
  LET closes == {c \in j..(Len(lines) - 1) : Contains(lines[c + 1], <<"-","-",">">>)}
  IN IF closes = {} THEN Len(lines) - 1 ELSE CHOOSE c \in closes : \A d \in closes : c <= d

\* C11: once the manifest is audited, a line has an exported-component finding
\* exactly if it holds android:exported="true" and no allow-listed name in its
\* lookback, holds no '-->', and the state of the two-state machine (a line with
\* '-->' gives NORMAL; otherwise a line with '<!--' gives IN_COMMENT; otherwise
\* the state stays) after stepping it is NORMAL; so no line from a line with
\* '<!--' to the first line with '-->' at or after it has a finding.
C11_CommentTracking ==
  ManifestAudited =>
    LET lines == ManifestLines
    IN /\ \A i \in 0..(Len(lines) - 1) :
            (ExportedFindings(i) # {}) <=>
              /\ IsExportedLine(lines, i)
              /\ ~Contains(lines[i + 1], <<"-","-",">">>)
              /\ CommentStateAfter(lines, i) = "NORMAL"
              /\ ~NameInLookback(lines, i, 2)
       /\ \A j \in 0..(Len(lines) - 1) :
            Contains(lines[j + 1], <<"<","!","-","-">>) =>
              \A i \in j..NextClose(lines, j) : ExportedFindings(i) = {}

\* A manifest is audited in which an exported line opens a comment, an exported
\* line after it closes the comment, neither has a finding, and the exported line
\* after them has one
C11_Witness ==
  /\ ManifestAudited
  /\ LET lines == ManifestLines
     IN \E j \in 0..(Len(lines) - 3) :
          /\ IsExportedLine(lines, j) /\ Contains(lines[j + 1], <<"<","!","-","-">>)
          /\ CommentStateAfter(lines, j) = "IN_COMMENT"
          /\ NextClose(lines, j) = j + 1 /\ IsExportedLine(lines, j + 1)
          /\ ExportedFindings(j) = {} /\ ExportedFindings(j + 1) = {}
          /\ IsExportedLine(lines, j + 2) /\ CommentStateAfter(lines, j + 2) = "NORMAL"
          /\ Cardinality(ExportedFindings(j + 2)) = 1

=============================================================================
